---- MODULE Spec2Model ----
(***************************************************************************)
(* Error translation boundary of the driver's native layer                 *)
(* (rust/src/error_conversion.rs): the ErrorToException implementations    *)
(* for PagerExecutionError, PrepareError and NewSessionError, and the      *)
(* construct_from_rust wrappers of the exception constructors.             *)
(*                                                                         *)
(* Text is a sequence of tokens, bytes a sequence of integers 0..255.      *)
(* An error value is a record: its type, the path of enum variants from    *)
(* the root to the leaf, and the payload the leaf carries.                 *)
(***************************************************************************)
EXTENDS Integers, Sequences, FiniteSets, TLC

\* ------------------------------------------------------------------ bounds
NumThreads == 2
NumHandles == 2
MaxIdLen == 3

Threads == 1 .. NumThreads
Handles == 1 .. NumHandles
NULL == 0

\* ------------------------------------------------------- numeric widths
LimbBase == 2 ^ 16
HalfLimb == 2 ^ 15
MillisPerSec == 1000
NanosPerMilli == 1000000

\* ------------------------------------------------------------ error values
NoText == << >>
NoBytes == << >>
NoDuration == [secs |-> 0, nanos |-> 0]
NoIo == [kind |-> "None", desc |-> << >>]

Err(type, path, ks, tb, msg, id, dur, io) ==
    [type |-> type, path |-> path, keyspace |-> ks, table |-> tb,
     message |-> msg, statement_id |-> id, duration |-> dur, io |-> io]

Plain(type, path) ==
    Err(type, path, NoText, NoText, NoText, NoBytes, NoDuration, NoIo)

Names == { <<"k", "s", "1">>, <<"t", "1">> }
Messages == { <<"bad", "request">>, <<"oops">> }
ByteValues == {1, 2, 255}

RECURSIVE ByteSeqs(_)
ByteSeqs(n) ==
    IF n = 0 THEN { << >> }
    ELSE LET S == ByteSeqs(n - 1)
         IN  S \cup { Append(s, b) : s \in { x \in S : Len(x) = n - 1 }, b \in ByteValues }

StatementIds == ByteSeqs(MaxIdLen)

\* 1500 ms, 0 ms, a sub-millisecond remainder, 2^31-1 ms, 2^31 ms, 2^32+7 ms
Durations ==
    { [secs |-> 1, nanos |-> 500000000],
      [secs |-> 0, nanos |-> 0],
      [secs |-> 0, nanos |-> 2999999],
      [secs |-> 2147483, nanos |-> 647999999],
      [secs |-> 2147483, nanos |-> 648000000],
      [secs |-> 4294967, nanos |-> 303000000] }

IoErrors ==
    { [kind |-> "ConnectionRefused", desc |-> <<"connection", "refused">>],
      [kind |-> "TimedOut", desc |-> <<"timed", "out">>],
      [kind |-> "NotConnected", desc |-> <<"not", "connected">>],
      [kind |-> "PermissionDenied", desc |-> <<"permission", "denied">>],
      [kind |-> "ConnectionReset", desc |-> <<"connection", "reset">>] }

MappedDbKinds ==
    { "AlreadyExists", "Invalid", "SyntaxError", "Unauthorized",
      "FunctionFailure", "TruncateError", "Unprepared", "ConfigError" }

UnmappedDbKinds == { "Unavailable", "ServerError" }

\* RequestAttemptError::DbError(kind, message) below the variants in prefix
DbErrors(type, prefix) ==
    LET p(kind) == prefix \o <<"DbError", kind>>
    IN  { Err(type, p("AlreadyExists"), k, t, m, NoBytes, NoDuration, NoIo) :
            k \in Names, t \in Names, m \in Messages }
        \cup
        { Err(type, p("Unprepared"), NoText, NoText, m, id, NoDuration, NoIo) :
            m \in Messages, id \in StatementIds }
        \cup
        { Err(type, p(kind), NoText, NoText, m, NoBytes, NoDuration, NoIo) :
            kind \in (MappedDbKinds \cup UnmappedDbKinds) \ {"AlreadyExists", "Unprepared"},
            m \in Messages }

LastAttemptPrefix == <<"NextPageError", "RequestFailure", "LastAttemptError">>
RequestTimeoutPath == <<"NextPageError", "RequestFailure", "RequestTimeout">>
BrokenIoPath == <<"MetadataError", "ConnectionPoolError", "Broken", "IoError">>

PagerExecutionErrors ==
    DbErrors("PagerExecutionError", LastAttemptPrefix)
    \cup DbErrors("PagerExecutionError", <<"PrepareError", "AllAttemptsFailed">>)
    \cup DbErrors("PagerExecutionError", <<"UseKeyspaceError", "RequestError">>)
    \cup DbErrors("PagerExecutionError", <<"SchemaAgreementError", "RequestError">>)
    \cup { Err("PagerExecutionError", RequestTimeoutPath, NoText, NoText, NoText, NoBytes, d, NoIo) :
             d \in Durations }
    \cup { Err("PagerExecutionError",
               <<"NextPageError", "RequestFailure", "ConnectionPoolError", "Broken", "IoError">>,
               NoText, NoText, NoText, NoBytes, NoDuration, io) : io \in IoErrors }
    \cup { Plain("PagerExecutionError", p) :
             p \in { LastAttemptPrefix \o <<"UnableToAllocStreamId">>,
                     LastAttemptPrefix \o <<"BrokenConnectionError">>,
                     <<"NextPageError", "RequestFailure", "EmptyPlan">>,
                     <<"NextPageError", "PartitionKeyError">>,
                     <<"NextPageError", "ResultMetadataParseError">>,
                     <<"SerializationError">>,
                     <<"SchemaAgreementError", "Timeout">> } }

PrepareErrors ==
    DbErrors("PrepareError", <<"AllAttemptsFailed">>)
    \cup { Plain("PrepareError", p) :
             p \in { <<"AllAttemptsFailed", "UnableToAllocStreamId">>,
                     <<"ConnectionPoolError", "Initializing">>,
                     <<"PreparedStatementIdsMismatch">> } }

NewSessionErrors ==
    { Err("NewSessionError", BrokenIoPath, NoText, NoText, NoText, NoBytes, NoDuration, io) :
        io \in IoErrors }
    \cup DbErrors("NewSessionError", <<"UseKeyspaceError", "RequestError">>)
    \cup { Plain("NewSessionError", p) :
             p \in { <<"MetadataError", "ConnectionPoolError", "Broken", "ConnectTimeout">>,
                     <<"MetadataError", "ConnectionPoolError", "Initializing">>,
                     <<"MetadataError", "FetchError">>,
                     <<"EmptyKnownNodesList">>,
                     <<"FailedToResolveAnyHostname">> } }

Errors == PagerExecutionErrors \cup PrepareErrors \cup NewSessionErrors

\* A small set of callers' inputs for the concurrent specification: two
\* different unmapped errors and a refused connection, whose messages are
\* Strings allocated by the call, and an error whose arguments are borrowed
\* from self.
ConcErrors ==
    { Plain("PagerExecutionError", <<"NextPageError", "RequestFailure", "EmptyPlan">>),
      Plain("PrepareError", <<"PreparedStatementIdsMismatch">>),
      Err("PagerExecutionError", LastAttemptPrefix \o <<"DbError", "Unprepared">>,
          NoText, NoText, <<"bad", "request">>, <<1, 2, 255>>, NoDuration, NoIo),
      Err("NewSessionError", BrokenIoPath, NoText, NoText, NoText, NoBytes, NoDuration,
          [kind |-> "ConnectionRefused", desc |-> <<"connection", "refused">>]) }

\* --------------------------------------------------- constructor registry
\* ExceptionConstructors: one function pointer per field; the value is the
\* managed exception class the pointed-to function builds.
ExceptionConstructors ==
    [rust_exception_constructor |-> "RustException",
     function_failure_exception_constructor |-> "FunctionFailureException",
     invalid_configuration_in_query_constructor |-> "InvalidConfigurationInQueryException",
     no_host_available_exception_constructor |-> "NoHostAvailableException",
     operation_timed_out_exception_constructor |-> "OperationTimedOutException",
     prepared_query_not_found_exception_constructor |-> "PreparedQueryNotFoundException",
     request_invalid_exception_constructor |-> "RequestInvalidException",
     syntax_error_exception_constructor |-> "SyntaxErrorException",
     trace_rejected_exception_constructor |-> "TraceRejectedException",
     truncate_exception_constructor |-> "TruncateException",
     unauthorized_exception_constructor |-> "UnauthorizedException",
     already_exists_constructor |-> "AlreadyExistsException",
     invalid_query_constructor |-> "InvalidQueryException"]

\* ------------------------------------------------------------- rendering
\* Display of an error: the variant path followed by the text it carries.
Display(e) ==
    <<e.type>> \o e.path \o e.keyspace \o e.table \o e.message \o e.io.desc

\* io_err.to_string()
io_to_string(io) == io.desc

\* format!("Rust exception: {}", err)
RustException_format(e) == <<"Rust exception: ">> \o Display(e)

\* Duration::as_millis(): secs * 1000 + nanos / 1_000_000, a u128 kept as
\* the two limbs hi * 2^16 + lo.
as_millis(d) ==
    LET sh == d.secs \div LimbBase
        sl == d.secs % LimbBase
        low == sl * MillisPerSec + d.nanos \div NanosPerMilli
    IN  [hi |-> sh * MillisPerSec + low \div LimbBase, lo |-> low % LimbBase]

\* `as i32` of a u128: the low 32 bits, read as two's complement.
as_i32(m) ==
    LET h == m.hi % LimbBase
    IN  (IF h >= HalfLimb THEN h - LimbBase ELSE h) * LimbBase + m.lo

\* the mathematical value of the i32 v is the number of milliseconds m
MillisEqual(v, m) ==
    v >= 0 /\ v \div LimbBase = m.hi /\ v % LimbBase = m.lo

\* ------------------------------------------------------------ match arms
\* An arm names the registry field whose construct_from_rust it calls and
\* where each argument comes from.
Text(src) == [kind |-> "text", src |-> src]
Bytes(src) == [kind |-> "bytes", src |-> src]
Int32(src) == [kind |-> "i32", src |-> src]

Arm(ctor, args) == [ctor |-> ctor, args |-> args]

\* a pattern that looks only at the database error, whatever carries it
LastAttemptDbErrorAnyPath(e, kind) ==
    /\ Len(e.path) >= 2
    /\ SubSeq(e.path, Len(e.path) - 1, Len(e.path)) = <<"DbError", kind>>

\* the leaf pattern NextPageError(RequestFailure(LastAttemptError(DbError(kind, _))))
LastAttemptDbError(e, kind) ==
    e.path = <<"NextPageError", "RequestFailure", "LastAttemptError", "DbError", kind>>

\* the leaf pattern NextPageError(RequestFailure(RequestTimeout(duration)))
RequestTimeout(e) ==
    e.path = <<"NextPageError", "RequestFailure", "RequestTimeout">>

\* the two names passed in the other order
AlreadyExistsArmSwapped ==
    Arm("already_exists_constructor", <<Text("table"), Text("keyspace")>>)

AlreadyExistsArm ==
    Arm("already_exists_constructor", <<Text("keyspace"), Text("table")>>)

\* the arm wired to the reserved request-invalid constructor
InvalidArmRequestInvalid == Arm("request_invalid_exception_constructor", <<Text("message")>>)

InvalidArm == Arm("invalid_query_constructor", <<Text("message")>>)

\* the arm wired to the constructor of the arm above it
SyntaxErrorArmInvalidQuery == Arm("invalid_query_constructor", <<Text("message")>>)

SyntaxErrorArm == Arm("syntax_error_exception_constructor", <<Text("message")>>)

UnauthorizedArm == Arm("unauthorized_exception_constructor", <<Text("message")>>)

FunctionFailureArm == Arm("function_failure_exception_constructor", <<Text("message")>>)

TruncateErrorArm == Arm("truncate_exception_constructor", <<Text("message")>>)

UnpreparedArm ==
    Arm("prepared_query_not_found_exception_constructor",
        <<Text("message"), Bytes("statement_id")>>)

ConfigErrorArm == Arm("invalid_configuration_in_query_constructor", <<Text("message")>>)

RequestTimeoutArm ==
    Arm("operation_timed_out_exception_constructor",
        <<Text("placeholder_address"), Int32("duration")>>)

FallbackArm == Arm("rust_exception_constructor", <<Text("display")>>)

NoHostAvailableArm ==
    Arm("no_host_available_exception_constructor", <<Text("io_to_string")>>)

\* a wildcard arm that constructs nothing
PagerFallbackNone(e) == << >>

\* the wildcard arm `_ => ctors.rust_exception_constructor.construct_from_rust(self)`
PagerFallback(e) == <<FallbackArm>>

\* impl ErrorToException for PagerExecutionError: the constructor calls, in
\* order, that the selected arm makes.
to_exception_PagerExecutionError(e) ==
    IF LastAttemptDbError(e, "AlreadyExists") THEN <<AlreadyExistsArm>>
    ELSE IF LastAttemptDbError(e, "Invalid") THEN <<InvalidArm>>
    ELSE IF LastAttemptDbError(e, "SyntaxError") THEN <<SyntaxErrorArm>>
    ELSE IF LastAttemptDbError(e, "Unauthorized") THEN <<UnauthorizedArm>>
    ELSE IF LastAttemptDbError(e, "FunctionFailure") THEN <<FunctionFailureArm>>
    ELSE IF LastAttemptDbError(e, "TruncateError") THEN <<TruncateErrorArm>>
    ELSE IF LastAttemptDbError(e, "Unprepared") THEN <<UnpreparedArm>>
    ELSE IF LastAttemptDbError(e, "ConfigError") THEN <<ConfigErrorArm>>
    ELSE IF RequestTimeout(e) THEN <<RequestTimeoutArm>>
    ELSE PagerFallback(e)

\* impl ErrorToException for PrepareError
to_exception_PrepareError(e) == <<FallbackArm>>

\* a kind test that forgets NotConnected
NoHostKindTwo(kind) == kind \in {"ConnectionRefused", "TimedOut"}

\* io_err.kind() is ConnectionRefused | TimedOut | NotConnected
NoHostKind(kind) == kind \in {"ConnectionRefused", "TimedOut", "NotConnected"}

\* the pattern MetadataError(ConnectionPoolError(Broken { IoError(io_err) }))
BrokenIoError(e) ==
    e.path = <<"MetadataError", "ConnectionPoolError", "Broken", "IoError">>

\* an inner match whose no-host arm goes on to the generic constructor
MatchIoKindFallThrough(e) ==
    IF NoHostKind(e.io.kind) THEN <<NoHostAvailableArm, FallbackArm>> ELSE <<FallbackArm>>

\* the inner `match io_err.kind()`
MatchIoKind(e) ==
    IF NoHostKind(e.io.kind) THEN <<NoHostAvailableArm>> ELSE <<FallbackArm>>

\* impl ErrorToException for NewSessionError
to_exception_NewSessionError(e) ==
    IF BrokenIoError(e) THEN MatchIoKind(e) ELSE <<FallbackArm>>

\* ErrorToException::to_exception, dispatched on the type of self
to_exception(e) ==
    CASE e.type = "PagerExecutionError" -> to_exception_PagerExecutionError(e)
      [] e.type = "PrepareError" -> to_exception_PrepareError(e)
      [] e.type = "NewSessionError" -> to_exception_NewSessionError(e)

\* -------------------------------------------------------- foreign views
PlaceholderAddress == <<"0.0.0.0:0">>

\* FFIStr::new(&str): a non-owning pointer and a length
FFIStr_new(base, s) == [kind |-> "text", base |-> base, len |-> Len(s), int |-> 0]

\* FFIByteSlice::new(&[u8])
FFIByteSlice_new(base, b) == [kind |-> "bytes", base |-> base, len |-> Len(b), int |-> 0]

\* an i32 is passed by value
Int32Arg(v) ==
    [kind |-> "i32", base |-> [region |-> "none", owner |-> 0, field |-> "none"],
     len |-> 0, int |-> v]

InSelf(t, field) == [region |-> "self", owner |-> t, field |-> field]
InStatic(field) == [region |-> "static", owner |-> 0, field |-> field]
InLocal(b) == [region |-> "local", owner |-> b, field |-> "message"]

\* one String shared by every call frame
MessageBufferShared(t) == 1

\* the String a call frame owns (`let message = format!(..)`, the temporary
\* of `io_err.to_string()`): one allocation per frame
MessageBuffer(t) == t

\* the String the arm or its construct_from_rust allocates, if any
LocalString(e, arm) ==
    IF \E i \in DOMAIN arm.args : arm.args[i].src = "display" THEN RustException_format(e)
    ELSE IF \E i \in DOMAIN arm.args : arm.args[i].src = "io_to_string" THEN io_to_string(e.io)
    ELSE << >>

AllocatesString(arm) ==
    \E i \in DOMAIN arm.args : arm.args[i].src \in {"display", "io_to_string"}

\* construct_from_rust giving the byte view the length of the message
PackArgumentMessageLength(t, e, arm, a) ==
    CASE a.src \in {"keyspace", "table", "message"} -> FFIStr_new(InSelf(t, a.src), e[a.src])
      [] a.src = "statement_id" -> FFIByteSlice_new(InSelf(t, a.src), e.message)
      [] a.src \in {"display", "io_to_string"} ->
            FFIStr_new(InLocal(MessageBuffer(t)), LocalString(e, arm))
      [] a.src = "placeholder_address" ->
            FFIStr_new(InStatic("placeholder_address"), PlaceholderAddress)
      [] a.src = "duration" -> Int32Arg(as_i32(as_millis(e.duration)))

\* the argument construct_from_rust packages for one parameter
PackArgument(t, e, arm, a) ==
    CASE a.src \in {"keyspace", "table", "message"} -> FFIStr_new(InSelf(t, a.src), e[a.src])
      [] a.src = "statement_id" -> FFIByteSlice_new(InSelf(t, a.src), e.statement_id)
      [] a.src \in {"display", "io_to_string"} ->
            FFIStr_new(InLocal(MessageBuffer(t)), LocalString(e, arm))
      [] a.src = "placeholder_address" ->
            FFIStr_new(InStatic("placeholder_address"), PlaceholderAddress)
      [] a.src = "duration" -> Int32Arg(as_i32(as_millis(e.duration)))

Take(s, n) == SubSeq(s, 1, IF n < Len(s) THEN n ELSE Len(s))

\* ------------------------------------------------------------------ state
VARIABLES
    ctors,    \* the registry the callers share by reference
    pc,       \* per thread: "idle", "running", "packed", "returned"
    err,      \* per thread: the error value being translated (self)
    plan,     \* per thread: the constructor calls the selected arm has yet to make
    views,    \* per thread: the arguments packaged for the pending call
    mem,      \* the Strings owned by call frames, by buffer
    calls,    \* per thread: the constructor calls the host has received
    result,   \* per thread: the handle the last constructor call returned
    ret       \* per thread: the handle to_exception returned

vars == <<ctors, pc, err, plan, views, mem, calls, result, ret>>

Init ==
    /\ ctors = ExceptionConstructors
    /\ pc = [t \in Threads |-> "idle"]
    /\ err = [t \in Threads |-> Plain("PagerExecutionError", <<"SerializationError">>)]
    /\ plan = [t \in Threads |-> << >>]
    /\ views = [t \in Threads |-> << >>]
    /\ mem = [b \in Threads |-> << >>]
    /\ calls = [t \in Threads |-> << >>]
    /\ result = [t \in Threads |-> NULL]
    /\ ret = [t \in Threads |-> NULL]

\* what the host reads through a view while the call is in progress
DerefText(base) ==
    CASE base.region = "self" -> err[base.owner][base.field]
      [] base.region = "local" -> mem[base.owner]
      [] base.region = "static" -> PlaceholderAddress

DerefBytes(base) == err[base.owner][base.field]

Read(v) ==
    [kind |-> v.kind,
     text |-> IF v.kind = "text" THEN Take(DerefText(v.base), v.len) ELSE << >>,
     bytes |-> IF v.kind = "bytes" THEN Take(DerefBytes(v.base), v.len) ELSE << >>,
     int |-> v.int]

InFlight(t) == pc[t] \in {"running", "packed"}

\* a caller enters to_exception(&self, ctors): the match selects its arm
Call(t, e) ==
    /\ pc[t] \in {"idle", "returned"}
    /\ pc' = [pc EXCEPT ![t] = "running"]
    /\ err' = [err EXCEPT ![t] = e]
    /\ plan' = [plan EXCEPT ![t] = to_exception(e)]
    /\ views' = [views EXCEPT ![t] = << >>]
    /\ calls' = [calls EXCEPT ![t] = << >>]
    /\ result' = [result EXCEPT ![t] = NULL]
    /\ ret' = [ret EXCEPT ![t] = NULL]
    /\ UNCHANGED <<ctors, mem>>

\* construct_from_rust up to the unsafe call: the message is formatted into
\* the frame's String and the arguments are packaged as views
Prepare(t) ==
    /\ pc[t] = "running"
    /\ plan[t] # << >>
    /\ Head(plan[t]).ctor \in DOMAIN ctors
    /\ LET arm == Head(plan[t])
       IN  /\ mem' = IF AllocatesString(arm)
                     THEN [mem EXCEPT ![MessageBuffer(t)] = LocalString(err[t], arm)]
                     ELSE mem
           /\ views' = [views EXCEPT ![t] =
                          [i \in DOMAIN arm.args |-> PackArgument(t, err[t], arm, arm.args[i])]]
    /\ pc' = [pc EXCEPT ![t] = "packed"]
    /\ UNCHANGED <<ctors, err, plan, calls, result, ret>>

\* unsafe { (self.0)(args) }: the host function reads the views, builds the
\* exception and returns its handle; the frame's String is dropped
Invoke(t) ==
    /\ pc[t] = "packed"
    /\ LET arm == Head(plan[t])
       IN  /\ \E h \in Handles :
                 /\ calls' = [calls EXCEPT ![t] =
                                Append(@, [fn |-> ctors[arm.ctor],
                                           args |-> [i \in DOMAIN views[t] |-> Read(views[t][i])],
                                           handle |-> h,
                                           concurrent |-> \E u \in Threads \ {t} : InFlight(u)])]
                 /\ result' = [result EXCEPT ![t] = h]
           /\ mem' = IF AllocatesString(arm)
                     THEN [mem EXCEPT ![MessageBuffer(t)] = << >>]
                     ELSE mem
    /\ plan' = [plan EXCEPT ![t] = Tail(@)]
    /\ views' = [views EXCEPT ![t] = << >>]
    /\ pc' = [pc EXCEPT ![t] = "running"]
    /\ UNCHANGED <<ctors, err, ret>>

\* to_exception returns the value of the arm's expression
Return(t) ==
    /\ pc[t] = "running"
    /\ plan[t] = << >>
    /\ ret' = [ret EXCEPT ![t] = result[t]]
    /\ pc' = [pc EXCEPT ![t] = "returned"]
    /\ UNCHANGED <<ctors, err, plan, views, mem, calls, result>>

\* one caller, every error value
Next ==
    \/ \E e \in Errors : Call(1, e)
    \/ Prepare(1)
    \/ Invoke(1)
    \/ Return(1)

Spec == Init /\ [][Next]_vars

\* several callers at once
NextConc ==
    \/ \E t \in Threads, e \in ConcErrors : Call(t, e)
    \/ \E t \in Threads : Prepare(t)
    \/ \E t \in Threads : Invoke(t)
    \/ \E t \in Threads : Return(t)

SpecConc == Init /\ [][NextConc]_vars

\* ----------------------------------------------------------------- claims
TextArg(s) == [kind |-> "text", text |-> s, bytes |-> << >>, int |-> 0]
BytesArg(b) == [kind |-> "bytes", text |-> << >>, bytes |-> b, int |-> 0]

\* the constructor calls thread t's current translation has made
CallsOf(t) == { calls[t][i] : i \in DOMAIN calls[t] }

MappedPath(e, kind) == e.path = LastAttemptPrefix \o <<"DbError", kind>>
TimeoutPath(e) == e.path = RequestTimeoutPath
MatchesLeaf(e) == TimeoutPath(e) \/ \E k \in MappedDbKinds : MappedPath(e, k)

SpecificException ==
    [AlreadyExists |-> "AlreadyExistsException",
     Invalid |-> "InvalidQueryException",
     SyntaxError |-> "SyntaxErrorException",
     Unauthorized |-> "UnauthorizedException",
     FunctionFailure |-> "FunctionFailureException",
     TruncateError |-> "TruncateException",
     Unprepared |-> "PreparedQueryNotFoundException",
     ConfigError |-> "InvalidConfigurationInQueryException"]

\* C1 (Totality): for every error value of the three translatable types, a
\* translation in progress always has a registry constructor to call, and a
\* translation that has returned has returned a non-null handle.
C1_Totality ==
    \A t \in Threads :
        /\ (pc[t] = "running" /\ plan[t] # << >>) => Head(plan[t]).ctor \in DOMAIN ctors
        /\ pc[t] = "returned" => ret[t] # NULL

\* a translation of an error that matches no leaf pattern has returned
C1_Witness ==
    /\ pc[1] = "returned"
    /\ err[1].path = <<"NextPageError", "PartitionKeyError">>
    /\ ret[1] # NULL

\* C2 (Specificity precedence): a PagerExecutionError is passed to the generic
\* constructor iff it matches none of the nine leaf patterns; a matching
\* error is passed to its own constructor; the generic constructor's message
\* is "Rust exception: " followed by the rendering of the whole error.
C2_SpecificityPrecedence ==
    \A t \in Threads : \A c \in CallsOf(t) :
        err[t].type = "PagerExecutionError" =>
            /\ c.fn = "RustException" <=> ~MatchesLeaf(err[t])
            /\ \A k \in MappedDbKinds : MappedPath(err[t], k) => c.fn = SpecificException[k]
            /\ TimeoutPath(err[t]) => c.fn = "OperationTimedOutException"
            /\ c.fn = "RustException" =>
                  c.args = << TextArg(<<"Rust exception: ">> \o Display(err[t])) >>

\* a syntax error on the mapped path has reached its constructor
C2_Witness ==
    /\ MappedPath(err[1], "SyntaxError")
    /\ Len(calls[1]) = 1
    /\ calls[1][1].fn = "SyntaxErrorException"

\* C3 (Exactly one constructor call): a translation never makes more than one
\* constructor call, and when it returns it has made exactly one and returns
\* the handle that call returned.
C3_ExactlyOneCall ==
    \A t \in Threads :
        /\ Len(calls[t]) <= 1
        /\ pc[t] = "returned" => Len(calls[t]) = 1 /\ ret[t] = calls[t][1].handle

\* a NewSessionError translation through the no-host arm has returned
C3_Witness ==
    /\ pc[1] = "returned"
    /\ err[1].type = "NewSessionError"
    /\ Len(calls[1]) = 1
    /\ calls[1][1].fn = "NoHostAvailableException"
    /\ ret[1] = NumHandles

\* C4 (Timeout conversion): for every request-timeout error the timed-out
\* constructor receives an i32 equal to the whole milliseconds of the duration.
C4_TimeoutConversion ==
    \A t \in Threads : \A c \in CallsOf(t) :
        (err[t].type = "PagerExecutionError" /\ TimeoutPath(err[t])) =>
            /\ c.fn = "OperationTimedOutException"
            /\ Len(c.args) = 2
            /\ c.args[2].kind = "i32"
            /\ MillisEqual(c.args[2].int, as_millis(err[t].duration))

\* C5 (I/O classification boundary): a NewSessionError is passed to the
\* no-host-available constructor iff it is a broken pool whose last error is
\* an I/O error of kind ConnectionRefused, TimedOut or NotConnected; every
\* other NewSessionError is passed to the generic constructor.
C5_IoClassification ==
    \A t \in Threads : \A c \in CallsOf(t) :
        err[t].type = "NewSessionError" =>
            LET nohost == /\ err[t].path = BrokenIoPath
                          /\ err[t].io.kind \in {"ConnectionRefused", "TimedOut", "NotConnected"}
            IN  /\ c.fn = "NoHostAvailableException" <=> nohost
                /\ ~nohost => c.fn = "RustException"

\* a not-connected I/O error has reached the no-host-available constructor
C5_Witness ==
    /\ err[1].type = "NewSessionError"
    /\ err[1].path = BrokenIoPath
    /\ err[1].io.kind = "NotConnected"
    /\ Len(calls[1]) = 1
    /\ calls[1][1].fn = "NoHostAvailableException"

\* C6 (Field fidelity): an already-exists error on the mapped path reaches
\* the already-exists constructor with exactly two text views, the keyspace
\* first and the table second, unchanged.
C6_FieldFidelity ==
    \A t \in Threads : \A c \in CallsOf(t) :
        (err[t].type = "PagerExecutionError" /\ MappedPath(err[t], "AlreadyExists")) =>
            /\ c.fn = "AlreadyExistsException"
            /\ c.args = << TextArg(err[t].keyspace), TextArg(err[t].table) >>

\* keyspace "ks1" and table "t1" have been delivered
C6_Witness ==
    /\ MappedPath(err[1], "AlreadyExists")
    /\ err[1].keyspace = <<"k", "s", "1">>
    /\ err[1].table = <<"t", "1">>
    /\ Len(calls[1]) = 1
    /\ calls[1][1].args[1].text = <<"k", "s", "1">>
    /\ calls[1][1].args[2].text = <<"t", "1">>

\* C7 (Statement-id round-trip): an unprepared error on the mapped path
\* reaches the prepared-query-not-found constructor with the message
\* unchanged and a byte view equal to the statement id in length and content.
C7_StatementIdRoundTrip ==
    \A t \in Threads : \A c \in CallsOf(t) :
        (err[t].type = "PagerExecutionError" /\ MappedPath(err[t], "Unprepared")) =>
            /\ c.fn = "PreparedQueryNotFoundException"
            /\ c.args = << TextArg(err[t].message), BytesArg(err[t].statement_id) >>

\* the id bytes 01 02 FF have been delivered
C7_Witness ==
    /\ MappedPath(err[1], "Unprepared")
    /\ err[1].statement_id = <<1, 2, 255>>
    /\ Len(calls[1]) = 1
    /\ calls[1][1].args[2].bytes = <<1, 2, 255>>

\* what a translation of e running alone passes to the host
AloneArgument(e, arm, a) ==
    CASE a.src \in {"keyspace", "table", "message"} -> TextArg(e[a.src])
      [] a.src = "statement_id" -> BytesArg(e.statement_id)
      [] a.src \in {"display", "io_to_string"} -> TextArg(LocalString(e, arm))
      [] a.src = "placeholder_address" -> TextArg(PlaceholderAddress)
      [] a.src = "duration" ->
            [kind |-> "i32", text |-> << >>, bytes |-> << >>,
             int |-> as_i32(as_millis(e.duration))]

AloneCall(e) ==
    LET arm == to_exception(e)[1]
    IN  [fn |-> ExceptionConstructors[arm.ctor],
         args |-> [i \in DOMAIN arm.args |-> AloneArgument(e, arm, arm.args[i])]]

\* C8 (Reentrancy): the registry is never modified, and under every
\* interleaving of concurrent translations each call reaches the constructor,
\* with the arguments, it would reach when run alone.
C8_Reentrancy ==
    /\ ctors = ExceptionConstructors
    /\ \A t \in Threads : \A c \in CallsOf(t) :
          [fn |-> c.fn, args |-> c.args] = AloneCall(err[t])

\* a constructor call was made while another translation was in progress, and
\* another thread, translating a different error, has its own call packaged
C8_Witness ==
    \E t \in Threads, u \in Threads :
        /\ t # u
        /\ Len(calls[t]) = 1
        /\ calls[t][1].concurrent
        /\ pc[u] = "packed"
        /\ err[u] # err[t]
        /\ calls[t][1].fn = "RustException"
        /\ AllocatesString(Head(plan[u]))

\* C9 (Reserved kinds): no translation calls the request-invalid or the
\* trace-rejected constructor.
C9_ReservedKinds ==
    \A t \in Threads : \A c \in CallsOf(t) :
        c.fn \notin {"RequestInvalidException", "TraceRejectedException"}

\* an invalid-query error, the nearest kind, has reached its own constructor
C9_Witness ==
    /\ MappedPath(err[1], "Invalid")
    /\ Len(calls[1]) = 1
    /\ calls[1][1].fn = "InvalidQueryException"

CarriesMappedDbError(e) ==
    /\ Len(e.path) >= 2
    /\ e.path[Len(e.path) - 1] = "DbError"
    /\ e.path[Len(e.path)] \in MappedDbKinds

\* C10 (Path sensitivity): a database error of a mapped kind selects its
\* specific constructor only below NextPageError -> RequestFailure ->
\* LastAttemptError; carried anywhere else in a PagerExecutionError, or by a
\* PrepareError, it reaches the generic constructor, as every PrepareError does.
C10_PathSensitivity ==
    \A t \in Threads : \A c \in CallsOf(t) :
        /\ err[t].type = "PrepareError" => c.fn = "RustException"
        /\ (/\ err[t].type = "PagerExecutionError"
            /\ CarriesMappedDbError(err[t])
            /\ ~MatchesLeaf(err[t])) => c.fn = "RustException"
        /\ (/\ err[t].type = "PagerExecutionError"
            /\ CarriesMappedDbError(err[t])
            /\ c.fn # "RustException") => MatchesLeaf(err[t])

\* an already-exists error carried by a PrepareError inside a
\* PagerExecutionError has reached the generic constructor
C10_Witness ==
    /\ err[1].type = "PagerExecutionError"
    /\ err[1].path = <<"PrepareError", "AllAttemptsFailed", "DbError", "AlreadyExists">>
    /\ Len(calls[1]) = 1
    /\ calls[1][1].fn = "RustException"

====
